---------------------------- MODULE Spec2Model ----------------------------
(***************************************************************************)
(* Model of the HTTP metadata inventory service: the POST and GET          *)
(* handlers (app/routes/metadata.py), the collection and background        *)
(* scheduling logic (app/services/metadata_service.py) and the upsert into *)
(* the MongoDB collection (app/database/repository.py), after the startup  *)
(* of the lifespan, connect_to_mongodb (app/database/mongodb.py).          *)
(*                                                                         *)
(* The service runs on one asyncio event loop: the code between two awaits *)
(* is one atomic step.  The awaits are the HTTP fetch (collector.py:70),   *)
(* the store lookup (repository.py:57) and the store upsert                *)
(* (repository.py:34).  A store await is split in two steps, the moment    *)
(* the store reads or writes and the moment the awaiting coroutine         *)
(* resumes; the fetch is one step, its result being visible only to the    *)
(* coroutine that resumes with it.  A background task is in its fetch from *)
(* asyncio.create_task on: its first run, up to the await of the fetch,    *)
(* changes nothing.                                                        *)
(*                                                                         *)
(* Time: `clock` is the UTC clock read by datetime.now (service line 40).  *)
(* It advances during every fetch, so two reads separated by a fetch       *)
(* differ (the clock has microsecond resolution, a fetch is network I/O).  *)
(***************************************************************************)
EXTENDS Naturals, Sequences, FiniteSets, Bags

\* Number of requests (POST /metadata and GET /metadata together) the model
\* lets arrive.
MaxRequests == 3

\* A URL is scheme ++ host ++ path, kept as the triple of its parts.
Urls ==
    { <<"https://", "example.com", "">>,
      <<"https://", "example.com", "/">>,
      <<"ftp://", "example.com", "/">> }

\* Python's None, where a document is expected.
None == [none |-> TRUE]

\* Faulty variant of startswith_http: any scheme passes.
startswith_any_scheme(url) ==
    url[1] \in {"http://", "https://", "ftp://"}

\* str.startswith(("http://", "https://")) of routes/metadata.py:99
startswith_http(url) ==
    url[1] \in {"http://", "https://"}

\* URLRequest.url is a pydantic HttpUrl: only http/https URLs reach the handler.
HttpUrls ==
    { u \in Urls : u[1] \in {"http://", "https://"} }

\* str(body.url): HttpUrl serialises an empty path as "/".
HttpUrlStr(u) ==
    <<u[1], u[2], IF u[3] = "" THEN "/" ELSE u[3]>>

\* What collect_metadata returns for a fetch that succeeds.
Responses ==
    { [headers |-> "h1", cookies |-> "c1", page_source |-> "v1"],
      [headers |-> "h2", cookies |-> "c2", page_source |-> "v2"] }

\* What collect_metadata raises for a fetch that fails.
FetchErrors == {"HTTPStatusError", "RequestError"}

\* What the target server does with the GET of collect_metadata: it answers
\* with a status, headers, cookies and a body, or the transport fails
\* (timeout, connection error).
Upstream ==
    { [error |-> "none", status |-> 200, headers |-> "h1", cookies |-> "c1", text |-> "v1"],
      [error |-> "none", status |-> 200, headers |-> "h2", cookies |-> "c2", text |-> "v2"],
      [error |-> "none", status |-> 404, headers |-> "h404", cookies |-> "c404", text |-> "v404"],
      [error |-> "RequestError", status |-> 0, headers |-> "", cookies |-> "", text |-> ""] }

\* Faulty variant of collect_metadata: response.raise_for_status() is missing.
collect_without_raise_for_status(r) ==
    IF r.error # "none"
    THEN [raises |-> r.error, returns |-> None]
    ELSE [raises |-> "none",
          returns |-> [headers |-> r.headers, cookies |-> r.cookies, page_source |-> r.text]]

\* collect_metadata(url) when the target does r: client.get raises the
\* transport error, raise_for_status raises for a status outside 2xx,
\* otherwise the dict of headers, cookies and page_source is returned.
collect_metadata(r) ==
    IF r.error # "none"
    THEN [raises |-> r.error, returns |-> None]
    ELSE IF r.status \notin 200..299
    THEN [raises |-> "HTTPStatusError", returns |-> None]
    ELSE [raises |-> "none",
          returns |-> [headers |-> r.headers, cookies |-> r.cookies, page_source |-> r.text]]

\* Faulty variant of post_metadata_status: only HTTPStatusError is caught.
post_status_misses_request_error(exc) ==
    IF exc = "none" THEN "201"
    ELSE IF exc = "HTTPStatusError" THEN "502"
    ELSE "500"

\* The status post_metadata answers with when create_metadata_record returned
\* ("none") or raised exc: 502 for the two httpx errors it catches, 500 for
\* any other exception.
post_metadata_status(exc) ==
    IF exc = "none" THEN "201"
    ELSE IF exc \in {"HTTPStatusError", "RequestError"} THEN "502"
    ELSE "500"

\* MetadataResponse(**record.model_dump()): the six fields of the record.
MetadataResponse(record) ==
    [k \in {"url", "headers", "cookies", "page_source", "created_at", "updated_at"} |->
        record[k]]

\* MetadataDocument(url=..., headers=..., ..., created_at=now, updated_at=now)
MetadataDocument(url, raw, now) ==
    [url |-> url, headers |-> raw.headers, cookies |-> raw.cookies,
     page_source |-> raw.page_source, created_at |-> now, updated_at |-> now]

\* MetadataDocument.to_mongo_dict: model_dump, the dict of all fields.
to_mongo_dict(doc) ==
    [k \in DOMAIN doc |-> doc[k]]

\* dict.pop(key, None): the dict without the key.
pop(d, key) ==
    [k \in DOMAIN d \ {key} |-> d[k]]

\* The documents of collection coll that match the filter {"url": url}.
Matching(coll, url) ==
    { d \in coll : d.url = url }

\* Faulty variant of ApplySet: $set leaves the stored cookies alone.
ApplySet_keeps_cookies(old, set) ==
    [k \in DOMAIN old \cup DOMAIN set |->
        IF k \in DOMAIN set /\ k # "cookies" THEN set[k] ELSE old[k]]

\* A matched document after $set: the set fields replaced, the others kept.
ApplySet(old, set) ==
    [k \in DOMAIN old \cup DOMAIN set |->
        IF k \in DOMAIN set THEN set[k] ELSE old[k]]

\* The document an upsert inserts: the filter's equality field, $set, $setOnInsert.
InsertedDoc(url, set, setOnInsert) ==
    [k \in {"url"} \cup DOMAIN set \cup DOMAIN setOnInsert |->
        IF k \in DOMAIN set THEN set[k]
        ELSE IF k \in DOMAIN setOnInsert THEN setOnInsert[k]
        ELSE url]

\* Faulty variant of update_one: an insert_one, whatever the collection holds.
update_one_always_inserts(coll, url, set, setOnInsert) ==
    coll \cup {InsertedDoc(url, set, setOnInsert)}

\* collection.update_one({"url": url}, {"$set": .., "$setOnInsert": ..}, upsert=True)
update_one(coll, url, set, setOnInsert) ==
    IF Matching(coll, url) = {}
    THEN coll \cup {InsertedDoc(url, set, setOnInsert)}
    ELSE LET old == CHOOSE d \in Matching(coll, url) : TRUE
         IN  (coll \ {old}) \cup {ApplySet(old, set)}

\* Faulty variant of upsert_metadata: created_at is not popped from the
\* $set document, so an update overwrites it.
upsert_overwrites_created(coll, doc, now) ==
    update_one(coll, doc.url, to_mongo_dict(doc), [created_at |-> now])

\* Faulty variant of upsert_metadata: an insert without upsert, which leaves
\* an existing document as it is.
upsert_insert_only(coll, doc, now) ==
    IF Matching(coll, doc.url) = {}
    THEN coll \cup {InsertedDoc(doc.url, pop(to_mongo_dict(doc), "created_at"),
                                [created_at |-> now])}
    ELSE coll

\* upsert_metadata(doc, now): the collection after the write.
upsert_metadata(coll, doc, now) ==
    LET update_data == pop(to_mongo_dict(doc), "created_at")
    IN  update_one(coll, doc.url, update_data, [created_at |-> now])

\* find_metadata_by_url(url): the document found, or None.
find_metadata_by_url(coll, url) ==
    IF Matching(coll, url) = {}
    THEN None
    ELSE CHOOSE d \in Matching(coll, url) : TRUE

VARIABLES
    metadata,       \* the MongoDB collection db.metadata: a set of documents
    pending_urls,   \* _pending_urls, the in-flight set
    clock,          \* the UTC clock
    jobs,           \* the create_metadata_record calls in flight: a bag
    gets,           \* the GET handlers awaiting their lookup: a bag
    arrived,        \* how many POST and GET requests have arrived
    stats,          \* per URL: the True and False returns of
                    \* schedule_background_collection, the background
                    \* tasks that ended without and with an exception, and
                    \* the POST requests sent with that URL and answered 201
    last,           \* the last response a handler sent
    performed,      \* how many fetches (collect_metadata) and upserts
                    \* (upsert_metadata) the service has called
    mongo           \* connect_to_mongodb in the lifespan's startup: where it
                    \* is, its loop variable, the delays it has slept, and
                    \* whether the unique index on url exists

vars == <<metadata, pending_urls, clock, jobs, gets, arrived, stats, last,
          performed, mongo>>

\* The variables of the request handlers and the collections.
serviceVars ==
    <<metadata, pending_urls, clock, jobs, gets, arrived, stats, last, performed>>

\* The URLs that can reach the service layer.
Keys ==
    { u \in Urls : startswith_http(u) }

\* The collections of bag b (the jobs in flight) for url, of the given kinds.
Running(b, url, kinds) ==
    { j \in BagToSet(b) : j.url = url /\ j.kind \in kinds }

\* How many collections of bag b are for url, of the given kinds.
NumRunning(b, url, kinds) ==
    BagCardinality([j \in Running(b, url, kinds) |-> b[j]])

Init ==
    /\ metadata = {}
    /\ pending_urls = {}
    /\ clock = 0
    /\ jobs = EmptyBag
    /\ gets = EmptyBag
    /\ arrived = [post |-> 0, get |-> 0]
    /\ stats = [u \in Keys |-> [scheduled |-> 0, skipped |-> 0,
                                completed |-> 0, failed |-> 0, created |-> 0]]
    /\ last = [req |-> "none", url |-> <<>>, status |-> "none", body |-> None]
    /\ performed = [fetch |-> 0, upsert |-> 0]
    /\ mongo = [pc |-> "ping", attempt |-> 1, slept |-> <<>>, index |-> FALSE]

\* Bag b with element old replaced by new.
Replace(b, old, new) ==
    (b (-) SetToBag({old})) (+) SetToBag({new})

\* The jobs in flight, those for url marked as having run beside another
\* collection of the same URL.
MarkOverlapped(url) ==
    LET mark(j) == IF j.url = url THEN [j EXCEPT !.overlapped = TRUE] ELSE j
        marked == { mark(j) : j \in BagToSet(jobs) }
    IN  [m \in marked |->
            Cardinality(UNION { { <<j, i>> : i \in 1..jobs[j] } :
                                j \in { x \in BagToSet(jobs) : mark(x) = m } })]

\* The jobs after a new call of create_metadata_record(url), which awaits
\* its fetch.  overlapped records whether another collection of the same
\* URL was in flight at any time during this one; sent is the URL the
\* request carried.
StartCollection(kind, sent, url) ==
    MarkOverlapped(url) (+)
    SetToBag({ [kind |-> kind, sent |-> sent, url |-> url, pc |-> "fetch",
                doc |-> None,
                overlapped |-> Running(jobs, url, {"post", "bg"}) # {}] })

\* post_metadata up to its first await: url = str(body.url), then
\* create_metadata_record(url) awaits the fetch.
PostMetadata(u) ==
    /\ mongo.pc = "ready"
    /\ arrived.post + arrived.get < MaxRequests
    /\ arrived' = [arrived EXCEPT !.post = @ + 1]
    /\ jobs' = StartCollection("post", u, HttpUrlStr(u))
    /\ performed' = [performed EXCEPT !.fetch = @ + 1]
    /\ UNCHANGED <<metadata, pending_urls, clock, gets, stats, last, mongo>>

\* Faulty variant of background_collect_end: no discard at all.
background_end_keeps(pending, url, outcome) ==
    pending

\* Faulty variant of background_collect_end: the discard sits at the end of
\* the try block instead of the finally, so a failed task skips it.
background_end_on_success(pending, url, outcome) ==
    IF outcome = "completed" THEN pending \ {url} ELSE pending

\* _background_collect after create_metadata_record returned ("completed")
\* or raised ("failed"): the finally runs _pending_urls.discard(url).
background_collect_end(pending, url, outcome) ==
    pending \ {url}

\* Faulty variant of EndCollection: the GET handler awaits the collection,
\* so its outcome becomes the response of a GET.
EndCollection_answers_get(j, status, outcome) ==
    /\ jobs' = jobs (-) SetToBag({j})
    /\ IF j.kind = "post"
       THEN /\ last' = [req |-> "POST", url |-> j.url, status |-> status, body |-> None]
            /\ stats' = IF status = "201"
                        THEN [stats EXCEPT ![j.sent].created = @ + 1]
                        ELSE stats
            /\ UNCHANGED pending_urls
       ELSE /\ pending_urls' = pending_urls \ {j.url}
            /\ stats' = [stats EXCEPT ![j.url][outcome] = @ + 1]
            /\ last' = [req |-> "GET", url |-> j.url, status |-> status, body |-> None]

\* A collection ends.  post_metadata sends its response; _background_collect
\* swallows the outcome and discards the URL.
EndCollection(j, status, outcome) ==
    /\ jobs' = jobs (-) SetToBag({j})
    /\ IF j.kind = "post"
       THEN /\ last' = [req |-> "POST", url |-> j.url, status |-> status, body |-> None]
            /\ stats' = IF status = "201"
                        THEN [stats EXCEPT ![j.sent].created = @ + 1]
                        ELSE stats
            /\ UNCHANGED pending_urls
       ELSE /\ pending_urls' = background_collect_end(pending_urls, j.url, outcome)
            /\ stats' = [stats EXCEPT ![j.url][outcome] = @ + 1]
            /\ UNCHANGED last

\* Faulty variant of FetchOk: a background task discards its URL as soon as
\* the fetch has returned, before the upsert.
FetchOk_discards_early(j, raw) ==
    /\ j.pc = "fetch"
    /\ clock' = clock + 1
    /\ jobs' = Replace(jobs, j, [j EXCEPT !.pc = "upsert",
                                          !.doc = MetadataDocument(j.url, raw, clock')])
    /\ performed' = [performed EXCEPT !.upsert = @ + 1]
    /\ pending_urls' = IF j.kind = "bg" THEN pending_urls \ {j.url} ELSE pending_urls
    /\ UNCHANGED <<metadata, gets, arrived, stats, last, mongo>>

\* The fetch succeeds: collect_metadata returns raw, create_metadata_record
\* reads the clock, builds the document and awaits the upsert.
FetchOk(j, raw) ==
    /\ j.pc = "fetch"
    /\ clock' = clock + 1
    /\ jobs' = Replace(jobs, j, [j EXCEPT !.pc = "upsert",
                                          !.doc = MetadataDocument(j.url, raw, clock')])
    /\ performed' = [performed EXCEPT !.upsert = @ + 1]
    /\ UNCHANGED <<metadata, pending_urls, gets, arrived, stats, last, mongo>>

\* Faulty variant of FetchFail: create_metadata_record catches the error and
\* calls collect_metadata again.
FetchFail_retries(j, err) ==
    /\ j.pc = "fetch"
    /\ err \in FetchErrors
    /\ performed' = [performed EXCEPT !.fetch = @ + 1]
    /\ UNCHANGED <<metadata, pending_urls, clock, jobs, gets, arrived, stats, last, mongo>>

\* The fetch fails: the error propagates out of create_metadata_record.
\* post_metadata turns either httpx error into 502.
FetchFail(j, err) ==
    /\ j.pc = "fetch"
    /\ err \in FetchErrors
    /\ EndCollection(j, post_metadata_status(err), "failed")
    /\ UNCHANGED <<metadata, clock, gets, arrived, performed, mongo>>

\* The awaited fetch of job j ends, the target having done r.
Fetch(j, r) ==
    \/ /\ collect_metadata(r).raises = "none"
       /\ FetchOk(j, collect_metadata(r).returns)
    \/ /\ collect_metadata(r).raises # "none"
       /\ FetchFail(j, collect_metadata(r).raises)

\* The store executes the update_one of upsert_metadata(doc, now).
StoreWrite(j) ==
    /\ j.pc = "upsert"
    /\ metadata' = upsert_metadata(metadata, j.doc, j.doc.updated_at)
    /\ jobs' = Replace(jobs, j, [j EXCEPT !.pc = "written"])
    /\ UNCHANGED <<pending_urls, clock, gets, arrived, stats, last, performed, mongo>>

\* The store fails the update_one: post_metadata does not catch the error
\* (500).
StoreFail(j) ==
    /\ j.pc = "upsert"
    /\ EndCollection(j, post_metadata_status("StoreError"), "failed")
    /\ UNCHANGED <<metadata, clock, gets, arrived, performed, mongo>>

\* The awaited upsert returns: create_metadata_record returns doc and
\* post_metadata answers 201.
UpsertReturn(j) ==
    /\ j.pc = "written"
    /\ EndCollection(j, post_metadata_status("none"), "completed")
    /\ UNCHANGED <<metadata, clock, gets, arrived, performed, mongo>>

\* get_metadata up to its first await: 400 for a URL that is not http(s),
\* otherwise get_metadata_record(url) awaits the lookup.
GetMetadata(u) ==
    /\ mongo.pc = "ready"
    /\ arrived.post + arrived.get < MaxRequests
    /\ arrived' = [arrived EXCEPT !.get = @ + 1]
    /\ IF startswith_http(u)
       THEN /\ gets' = gets (+) SetToBag({ [url |-> u, pc |-> "lookup", record |-> None] })
            /\ UNCHANGED last
       ELSE /\ last' = [req |-> "GET", url |-> u, status |-> "400", body |-> None]
            /\ UNCHANGED gets
    /\ UNCHANGED <<metadata, pending_urls, clock, jobs, stats, performed, mongo>>

\* The store executes the find_one of find_metadata_by_url.
StoreFind(g) ==
    /\ g.pc = "lookup"
    /\ gets' = Replace(gets, g, [g EXCEPT !.pc = "found",
                                          !.record = find_metadata_by_url(metadata, g.url)])
    /\ UNCHANGED <<metadata, pending_urls, clock, jobs, arrived, stats, last, performed, mongo>>

\* The store fails the find_one: get_metadata does not catch the error (500).
StoreFindFail(g) ==
    /\ g.pc = "lookup"
    /\ gets' = gets (-) SetToBag({g})
    /\ last' = [req |-> "GET", url |-> g.url, status |-> "500", body |-> None]
    /\ UNCHANGED <<metadata, pending_urls, clock, jobs, arrived, stats, performed, mongo>>

\* Faulty variant of schedule_background_collection: no membership test.
schedule_no_check(pending, url) ==
    [returns |-> TRUE, pending |-> pending \cup {url}, task |-> TRUE]

\* Faulty variant of schedule_background_collection: the URL is not added.
schedule_no_add(pending, url) ==
    IF url \in pending
    THEN [returns |-> FALSE, pending |-> pending, task |-> FALSE]
    ELSE [returns |-> TRUE, pending |-> pending, task |-> TRUE]

\* Faulty variant of schedule_background_collection: the coroutine is never
\* handed to asyncio.create_task.
schedule_no_task(pending, url) ==
    IF url \in pending
    THEN [returns |-> FALSE, pending |-> pending, task |-> FALSE]
    ELSE [returns |-> TRUE, pending |-> pending \cup {url}, task |-> FALSE]

\* schedule_background_collection(url): what it returns, _pending_urls after
\* it, and whether it called asyncio.create_task(_background_collect(url)).
schedule_background_collection(pending, url) ==
    IF url \in pending
    THEN [returns |-> FALSE, pending |-> pending, task |-> FALSE]
    ELSE [returns |-> TRUE, pending |-> pending \cup {url}, task |-> TRUE]

\* Faulty variant of GetHit: a hit also schedules a background refresh.
GetHit_refreshes(g) ==
    /\ g.pc = "found"
    /\ g.record # None
    /\ gets' = gets (-) SetToBag({g})
    /\ last' = [req |-> "GET", url |-> g.url, status |-> "200", body |-> MetadataResponse(g.record)]
    /\ pending_urls' = pending_urls \cup {g.url}
    /\ jobs' = IF g.url \in pending_urls THEN jobs ELSE StartCollection("bg", g.url, g.url)
    /\ performed' = IF g.url \in pending_urls THEN performed
                    ELSE [performed EXCEPT !.fetch = @ + 1]
    /\ stats' = [stats EXCEPT ![g.url].scheduled = @ + 1]
    /\ UNCHANGED <<metadata, clock, arrived, mongo>>

\* The awaited lookup returns a record to get_metadata: 200 with the record.
GetHit(g) ==
    /\ g.pc = "found"
    /\ g.record # None
    /\ gets' = gets (-) SetToBag({g})
    /\ last' = [req |-> "GET", url |-> g.url, status |-> "200", body |-> MetadataResponse(g.record)]
    /\ UNCHANGED <<metadata, pending_urls, clock, jobs, arrived, stats, performed, mongo>>

\* The awaited lookup returns None to get_metadata:
\* schedule_background_collection(url), then 202.
GetMiss(g) ==
    /\ g.pc = "found"
    /\ g.record = None
    /\ LET s == schedule_background_collection(pending_urls, g.url)
       IN  /\ pending_urls' = s.pending
           /\ jobs' = IF s.task THEN StartCollection("bg", g.url, g.url) ELSE jobs
           /\ performed' = IF s.task THEN [performed EXCEPT !.fetch = @ + 1]
                           ELSE performed
           /\ stats' = [stats EXCEPT
                          ![g.url][IF s.returns THEN "scheduled" ELSE "skipped"] = @ + 1]
    /\ gets' = gets (-) SetToBag({g})
    /\ last' = [req |-> "GET", url |-> g.url, status |-> "202", body |-> None]
    /\ UNCHANGED <<metadata, clock, arrived, mongo>>

\* _MAX_RETRIES of database/mongodb.py
MAX_RETRIES == 5

\* _RETRY_BASE_DELAY of database/mongodb.py
RETRY_BASE_DELAY == 2

\* Faulty variant of retry_delay: a linear backoff.
retry_delay_linear(attempt) ==
    RETRY_BASE_DELAY * attempt

\* delay = _RETRY_BASE_DELAY ** attempt
retry_delay(attempt) ==
    RETRY_BASE_DELAY ^ attempt

\* connect_to_mongodb: the awaited ping succeeds; break, then the
\* create_index is awaited.
PingOk ==
    /\ mongo.pc = "ping"
    /\ mongo' = [mongo EXCEPT !.pc = "index"]
    /\ UNCHANGED serviceVars

\* connect_to_mongodb: the awaited ping raises; the last attempt re-raises,
\* any other awaits asyncio.sleep(delay).
PingFail ==
    /\ mongo.pc = "ping"
    /\ mongo' = IF mongo.attempt = MAX_RETRIES
                THEN [mongo EXCEPT !.pc = "raised"]
                ELSE [mongo EXCEPT !.pc = "sleep",
                                   !.slept = Append(@, retry_delay(mongo.attempt))]
    /\ UNCHANGED serviceVars

\* connect_to_mongodb: asyncio.sleep returns; the for loop takes the next
\* attempt and awaits its ping.
SleepReturn ==
    /\ mongo.pc = "sleep"
    /\ mongo' = [mongo EXCEPT !.pc = "ping", !.attempt = @ + 1]
    /\ UNCHANGED serviceVars

\* connect_to_mongodb: create_index("url", unique=True) returns and so does
\* connect_to_mongodb, its locals gone; the lifespan yields and the
\* application serves requests.
CreateIndex ==
    /\ mongo.pc = "index"
    /\ mongo' = [pc |-> "ready", attempt |-> 0, slept |-> <<>>, index |-> TRUE]
    /\ UNCHANGED serviceVars

\* connect_to_mongodb: create_index raises, and with it the startup.
CreateIndexFail ==
    /\ mongo.pc = "index"
    /\ mongo' = [mongo EXCEPT !.pc = "raised"]
    /\ UNCHANGED serviceVars

Next ==
    \/ PingOk
    \/ PingFail
    \/ SleepReturn
    \/ CreateIndex
    \/ CreateIndexFail
    \/ \E u \in HttpUrls : PostMetadata(u)
    \/ \E u \in Urls : GetMetadata(u)
    \/ \E j \in BagToSet(jobs) : \E r \in Upstream : Fetch(j, r)
    \/ \E j \in BagToSet(jobs) : StoreWrite(j)
    \/ \E j \in BagToSet(jobs) : StoreFail(j)
    \/ \E j \in BagToSet(jobs) : UpsertReturn(j)
    \/ \E g \in BagToSet(gets) : StoreFind(g)
    \/ \E g \in BagToSet(gets) : StoreFindFail(g)
    \/ \E g \in BagToSet(gets) : GetHit(g)
    \/ \E g \in BagToSet(gets) : GetMiss(g)

Spec == Init /\ [][Next]_vars

\* Number of requests the specifications with fairness let arrive.
LiveMaxRequests == 2

\* Not more than LiveMaxRequests requests have arrived.
LiveBound ==
    arrived.post + arrived.get <= LiveMaxRequests

\* A step of the background task for u: its fetch ends, the store executes
\* or fails its upsert, or the awaited upsert returns.
BackgroundStep(u) ==
    \E j \in Running(jobs, u, {"bg"}) :
        \/ \E r \in Upstream : Fetch(j, r)
        \/ StoreWrite(j)
        \/ StoreFail(j)
        \/ UpsertReturn(j)

\* The steps of Next, with at most LiveMaxRequests arrivals.
LiveNext ==
    \/ PingOk
    \/ PingFail
    \/ SleepReturn
    \/ CreateIndex
    \/ CreateIndexFail
    \/ \E u \in HttpUrls : PostMetadata(u) /\ LiveBound'
    \/ \E u \in Urls : GetMetadata(u) /\ LiveBound'
    \/ \E j \in BagToSet(jobs) : \E r \in Upstream : Fetch(j, r)
    \/ \E j \in BagToSet(jobs) : StoreWrite(j)
    \/ \E j \in BagToSet(jobs) : StoreFail(j)
    \/ \E j \in BagToSet(jobs) : UpsertReturn(j)
    \/ \E g \in BagToSet(gets) : StoreFind(g)
    \/ \E g \in BagToSet(gets) : StoreFindFail(g)
    \/ \E g \in BagToSet(gets) : GetHit(g)
    \/ \E g \in BagToSet(gets) : GetMiss(g)

\* The event loop runs every task whose await has ended, and every fetch
\* and store call ends: a background task in flight takes its next step.
FairSpec ==
    Init /\ [][LiveNext]_vars /\ \A u \in Keys : WF_vars(BackgroundStep(u))

\* A step of the background task for u when no fetch and no store call fails.
BackgroundOkStep(u) ==
    \E j \in Running(jobs, u, {"bg"}) :
        \/ \E r \in Upstream : /\ collect_metadata(r).raises = "none"
                                /\ FetchOk(j, collect_metadata(r).returns)
        \/ StoreWrite(j)
        \/ UpsertReturn(j)

\* The steps of the service when every fetch succeeds and the store is
\* available.
OkNext ==
    \/ PingOk
    \/ CreateIndex
    \/ \E u \in HttpUrls : PostMetadata(u) /\ LiveBound'
    \/ \E u \in Urls : GetMetadata(u) /\ LiveBound'
    \/ \E j \in BagToSet(jobs) : \E r \in Upstream :
           /\ collect_metadata(r).raises = "none"
           /\ FetchOk(j, collect_metadata(r).returns)
    \/ \E j \in BagToSet(jobs) : StoreWrite(j)
    \/ \E j \in BagToSet(jobs) : UpsertReturn(j)
    \/ \E g \in BagToSet(gets) : StoreFind(g)
    \/ \E g \in BagToSet(gets) : GetHit(g)
    \/ \E g \in BagToSet(gets) : GetMiss(g)

FairOkSpec ==
    Init /\ [][OkNext]_vars /\ \A u \in Keys : WF_vars(BackgroundOkStep(u))

-----------------------------------------------------------------------------
(* Properties *)

\* How often schedule_background_collection(u) has been called.
Calls(u) ==
    stats[u].scheduled + stats[u].skipped

\* How many background tasks for u have ended.
Ended(u) ==
    stats[u].completed + stats[u].failed

\* This step is StoreWrite(j): the store executes job j's upsert.
IsStoreWrite(j) ==
    /\ j.pc = "upsert"
    /\ jobs' = Replace(jobs, j, [j EXCEPT !.pc = "written"])

\* This step is GetMiss(g): get_metadata resumes with no record.
IsGetMiss(g) ==
    /\ g.pc = "found"
    /\ g.record = None
    /\ gets' = gets (-) SetToBag({g})

\* C1: as long as no background task for u has ended, of the N >= 1 calls
\* of schedule_background_collection(u) exactly one has returned True, the
\* others False, and exactly one task for u has been started.
C1_OneTrueReturn ==
    \A u \in Keys :
        (Ended(u) = 0 /\ Calls(u) >= 1) =>
            /\ stats[u].scheduled = 1
            /\ stats[u].skipped = Calls(u) - 1
            /\ NumRunning(jobs, u, {"bg"}) = 1

\* C1 witness: two calls for u before any task for u ended, one True and
\* one False.
C1_Witness ==
    \E u \in Keys :
        /\ Ended(u) = 0
        /\ stats[u].scheduled = 1
        /\ stats[u].skipped = 1

\* C2: u is in _pending_urls iff exactly one background task for u is
\* unfinished; there are never two unfinished tasks for u.
C2_PendingIffOneTask ==
    /\ pending_urls \subseteq Keys
    /\ \A u \in Keys :
        /\ NumRunning(jobs, u, {"bg"}) <= 1
        /\ (u \in pending_urls) <=> (NumRunning(jobs, u, {"bg"}) = 1)

\* C2 witness: a task for u has ended and a new one is in flight for u.
C2_Witness ==
    \E u \in Keys :
        /\ Ended(u) >= 1
        /\ u \in pending_urls
        /\ NumRunning(jobs, u, {"bg"}) = 1

\* C3 as stated: at most one collection (POST or background) is in flight
\* for a URL.
C3_OneCollectionPerUrl ==
    \A u \in Keys : NumRunning(jobs, u, {"post", "bg"}) <= 1

\* C3 amended: at most one background collection is in flight for a URL,
\* whatever POST collections run beside it.
C3_OneBackgroundPerUrl ==
    \A u \in Keys :
        \A j \in Running(jobs, u, {"bg"}) :
            /\ jobs[j] = 1
            /\ Running(jobs, u, {"bg"}) = {j}

\* C3 witness: a POST collection and a background collection of the same
\* URL are in flight together.
C3_Witness ==
    \E u \in Keys :
        /\ NumRunning(jobs, u, {"bg"}) = 1
        /\ NumRunning(jobs, u, {"post"}) >= 1

\* C4: a stored record keeps its created_at in every step, and a record is
\* inserted with created_at equal to the now of the inserting upsert (which
\* the same upsert writes to updated_at).
C4_CreatedAtStable ==
    [][\A u \in Keys :
          /\ \A d \in Matching(metadata, u) :
                 \E e \in Matching(metadata', u) : e.created_at = d.created_at
          /\ (Matching(metadata, u) = {} /\ Matching(metadata', u) # {}) =>
                 \A e \in Matching(metadata', u) : e.created_at = e.updated_at
      ]_vars

\* C4 witness: a record that a later collection has updated, its created_at
\* still the older value.
C4_Witness ==
    \E d \in metadata : d.created_at < d.updated_at

\* C5: every stored record has created_at <= updated_at.
C5_CreatedLeUpdated ==
    \A d \in metadata : d.created_at <= d.updated_at

\* C6: the stored created_at is not greater than the now of any collection
\* of that URL whose upsert has completed.
C6_CreatedIsEarliest ==
    \A j \in BagToSet(jobs) :
        j.pc = "written" =>
            \A d \in Matching(metadata, j.url) : d.created_at <= j.doc.updated_at

\* C7: after each upsert the stored headers, cookies, page_source and
\* updated_at are those of the collection whose upsert it was.
C7_LastWriterWins ==
    [][\A j \in BagToSet(jobs) :
          IsStoreWrite(j) =>
              /\ Matching(metadata', j.url) # {}
              /\ \A e \in Matching(metadata', j.url) :
                    /\ e.headers = j.doc.headers
                    /\ e.cookies = j.doc.cookies
                    /\ e.page_source = j.doc.page_source
                    /\ e.updated_at = j.doc.updated_at
      ]_vars

\* C7 witness: a collection that ran beside another one of the same URL
\* has overwritten the record the other one inserted.
C7_Witness ==
    \E j \in BagToSet(jobs) :
        /\ j.pc = "written"
        /\ j.overlapped
        /\ \E d \in Matching(metadata, j.url) :
              /\ d.updated_at = j.doc.updated_at
              /\ d.created_at # j.doc.updated_at

\* C8: when a collection that ran with no other collection of its URL in
\* flight writes over the record of an earlier collection, the record
\* carries its page_source, headers and cookies, is still the only record
\* of the URL, and its updated_at is strictly greater than before.
C8_SecondCollectionWins ==
    [][\A j \in BagToSet(jobs) :
          (IsStoreWrite(j) /\ ~j.overlapped) =>
              \A d \in Matching(metadata, j.url) :
                  /\ Cardinality(Matching(metadata', j.url)) = 1
                  /\ \A e \in Matching(metadata', j.url) :
                        /\ e.page_source = j.doc.page_source
                        /\ e.headers = j.doc.headers
                        /\ e.cookies = j.doc.cookies
                        /\ e.updated_at > d.updated_at
      ]_vars

\* C8 witness: the second of two collections performed one after the other
\* has updated the record of the first.
C8_Witness ==
    \E j \in BagToSet(jobs) :
        /\ j.pc = "written"
        /\ ~j.overlapped
        /\ \E d \in Matching(metadata, j.url) :
              /\ d.updated_at = j.doc.updated_at
              /\ d.created_at < d.updated_at

\* C9: a GET that resumes with no record answers 202, calls
\* schedule_background_collection once with its URL and leaves exactly one
\* in-flight entry and task for the URL; with no in-flight job before, the
\* call returns True.
C9_MissSchedulesOnce ==
    [][\A g \in BagToSet(gets) :
          IsGetMiss(g) =>
              /\ last' = [req |-> "GET", url |-> g.url, status |-> "202", body |-> None]
              /\ Calls(g.url)' = Calls(g.url) + 1
              /\ \A u \in Keys \ {g.url} : Calls(u)' = Calls(u)
              /\ g.url \in pending_urls'
              /\ NumRunning(jobs', g.url, {"bg"}) = 1
              /\ (g.url \notin pending_urls) =>
                    stats'[g.url].scheduled = stats[g.url].scheduled + 1
      ]_vars

\* C9 witness: the first GET for a URL has been answered 202 and its task
\* is in flight.
C9_Witness ==
    \E u \in Keys :
        /\ last = [req |-> "GET", url |-> u, status |-> "202", body |-> None]
        /\ Matching(metadata, u) = {}
        /\ stats[u].scheduled = 1
        /\ Calls(u) = 1
        /\ Ended(u) = 0
        /\ u \in pending_urls

\* C10: the step in which a background task ends in failure removes its
\* URL from _pending_urls, and a GET miss that then finds the URL absent
\* from _pending_urls gets True and a new task.
C10_FailureReleasesUrl ==
    [][/\ \A j \in BagToSet(jobs) :
             (/\ j.kind = "bg"
              /\ jobs' = jobs (-) SetToBag({j})
              /\ stats'[j.url].failed = stats[j.url].failed + 1)
             => j.url \notin pending_urls'
       /\ \A g \in BagToSet(gets) :
             (/\ IsGetMiss(g)
              /\ stats[g.url].failed >= 1
              /\ NumRunning(jobs, g.url, {"bg"}) = 0)
             => /\ stats'[g.url].scheduled = stats[g.url].scheduled + 1
                /\ NumRunning(jobs', g.url, {"bg"}) = 1
                /\ g.url \in pending_urls'
      ]_vars

\* C10 witness: the first task for u failed and a later GET miss has
\* started a second one.
C10_Witness ==
    \E u \in Keys :
        /\ stats[u].failed = 1
        /\ stats[u].completed = 0
        /\ stats[u].scheduled = 2
        /\ u \in pending_urls
        /\ NumRunning(jobs, u, {"bg"}) = 1


\* This step is the fetch of job j failing.
IsFetchFail(j) ==
    /\ j.pc = "fetch"
    /\ jobs' = jobs (-) SetToBag({j})

\* This step ends job j: its call returns or raises.
IsEnd(j) ==
    jobs' = jobs (-) SetToBag({j})

\* This step is StoreFind(g) and d is what the lookup found.
IsStoreFind(g, d) ==
    /\ g.pc = "lookup"
    /\ gets' = Replace(gets, g, [g EXCEPT !.pc = "found", !.record = d])

\* This step is GetHit(g): get_metadata resumes with a record.
IsGetHit(g) ==
    /\ g.pc = "found"
    /\ g.record # None
    /\ gets' = gets (-) SetToBag({g})

\* The headers, cookies and page_source of document d.
Content(d) ==
    [headers |-> d.headers, cookies |-> d.cookies, page_source |-> d.page_source]

\* C11: under FairSpec every URL in _pending_urls is eventually removed
\* from it, whatever the outcome of its task.
C11_EventuallyRemoved ==
    \A u \in Keys : (u \in pending_urls) ~> (u \notin pending_urls)

\* C11 witness: a task for u has failed and u has left _pending_urls.
C11_Witness ==
    \E u \in Keys :
        /\ stats[u].scheduled = 1
        /\ stats[u].failed = 1
        /\ u \notin pending_urls

\* C12: the step in which the fetch of a collection fails leaves the store
\* as it was and ends the call with the error (502 for a POST, a failed
\* task in the background); the store only ever holds what a successful
\* fetch returned.
C12_FetchFailureStoresNothing ==
    [][/\ \A j \in BagToSet(jobs) :
             IsFetchFail(j) =>
                 /\ metadata' = metadata
                 /\ j.kind = "post" =>
                       (last'.req = "POST" /\ last'.url = j.url /\ last'.status = "502")
                 /\ j.kind = "bg" =>
                       stats'[j.url].failed = stats[j.url].failed + 1
       /\ \A d \in metadata' : Content(d) \in Responses
      ]_vars

\* C12 witness: a POST has failed with 502 while the store holds a record
\* for its URL.
C12_Witness ==
    /\ last.req = "POST"
    /\ last.status = "502"
    /\ Matching(metadata, last.url) # {}

\* C13: the step in which a background task fails sends no response,
\* touches no GET handler and no other collection and leaves the store as
\* it was; the GET that started a task has its 202 in the step that
\* starts it.
C13_BackgroundErrorIsSilent ==
    [][/\ \A j \in BagToSet(jobs) :
             (/\ j.kind = "bg"
              /\ IsEnd(j)
              /\ stats'[j.url].failed = stats[j.url].failed + 1)
             => /\ last' = last
                /\ gets' = gets
                /\ metadata' = metadata
                /\ arrived' = arrived
       /\ \A u \in Keys :
             NumRunning(jobs', u, {"bg"}) > NumRunning(jobs, u, {"bg"}) =>
                 last' = [req |-> "GET", url |-> u, status |-> "202", body |-> None]
      ]_vars

\* C13 witness: the only task for u has failed; the last response is still
\* the 202 of the GET that started it, and the store has no record for u.
C13_Witness ==
    \E u \in Keys :
        /\ stats[u].failed = 1
        /\ Calls(u) = 1
        /\ last = [req |-> "GET", url |-> u, status |-> "202", body |-> None]
        /\ Matching(metadata, u) = {}

\* C14: a lookup returns the stored record of the URL if there is one; a
\* GET that resumes with a record answers 200 with that record and changes
\* neither the store nor _pending_urls nor the collections in flight.
C14_HitHasNoSideEffect ==
    [][/\ \A g \in BagToSet(gets) : \A d \in metadata \cup {None} :
             IsStoreFind(g, d) =>
                 IF Matching(metadata, g.url) = {}
                 THEN d = None
                 ELSE d \in Matching(metadata, g.url)
       /\ \A g \in BagToSet(gets) :
             IsGetHit(g) =>
                 /\ last' = [req |-> "GET", url |-> g.url, status |-> "200",
                             body |-> g.record]
                 /\ UNCHANGED <<metadata, pending_urls, jobs, stats>>
      ]_vars

\* C14 witness: a GET has been answered 200 with the stored record while
\* nothing is in flight.
C14_Witness ==
    /\ last.req = "GET"
    /\ last.status = "200"
    /\ last.body \in metadata
    /\ pending_urls = {}
    /\ jobs = EmptyBag

\* C15: once a POST sent with URL u has been answered 201, the lookup of a
\* GET for u finds a record.
C15_PostThenGetHits ==
    [][\A g \in BagToSet(gets) : \A d \in metadata \cup {None} :
          (IsStoreFind(g, d) /\ stats[g.url].created >= 1) => d # None
      ]_vars

\* C16: under FairOkSpec (every fetch succeeds, the store is available),
\* once a GET for u has been answered 202 or u is in flight, the store
\* eventually holds a record for u and holds one from then on, so that
\* every later lookup for u is a hit.
C16_EventuallyStored ==
    \A u \in Keys :
        (u \in pending_urls \/ (last.req = "GET" /\ last.status = "202" /\ last.url = u))
            ~> [](Matching(metadata, u) # {})

\* C16 witness: a GET for u was a miss, its task completed, and the next
\* GET for u has been answered 200 with the stored record.
C16_Witness ==
    \E u \in Keys :
        /\ stats[u].scheduled = 1
        /\ stats[u].completed = 1
        /\ last.req = "GET" /\ last.status = "200" /\ last.url = u
        /\ last.body \in Matching(metadata, u)

\* C17: the background tasks ever started for u are as many as the True
\* returns of schedule_background_collection(u); a True return starts one
\* task, a False return starts none and leaves _pending_urls as it was.
C17_OneTaskPerTrueReturn ==
    [][/\ \A u \in Keys :
             stats'[u].scheduled = Ended(u)' + NumRunning(jobs', u, {"bg"})
       /\ \A g \in BagToSet(gets) :
             IsGetMiss(g) =>
                 /\ stats'[g.url].skipped = stats[g.url].skipped + 1 =>
                       (pending_urls' = pending_urls /\ jobs' = jobs)
                 /\ stats'[g.url].scheduled = stats[g.url].scheduled + 1 =>
                       NumRunning(jobs', g.url, {"bg"}) =
                           NumRunning(jobs, g.url, {"bg"}) + 1
      ]_vars

\* C17 witness: one True and one False return for u, and the one task has
\* ended.
C17_Witness ==
    \E u \in Keys :
        /\ stats[u].scheduled = 1
        /\ stats[u].skipped = 1
        /\ Ended(u) = 1
        /\ u \notin pending_urls

\* C18: a POST whose fetch fails is answered 502; a POST is answered 201
\* only when its upsert has been executed by the store and has returned.
C18_PostStatus ==
    [][\A j \in BagToSet(jobs) :
          (j.kind = "post" /\ IsEnd(j)) =>
              /\ last'.req = "POST" /\ last'.url = j.url
              /\ j.pc = "fetch" => last'.status = "502"
              /\ last'.status = "201" =>
                    (j.pc = "written" /\ Matching(metadata, j.url) # {})
      ]_vars

\* C18 witness: a POST has been answered 502 and the store is empty.
C18_Witness ==
    /\ last.req = "POST"
    /\ last.status = "502"
    /\ metadata = {}

\* C19: a GET whose URL does not start with http:// or https:// is answered
\* 400 in the step it arrives in, with no lookup and nothing scheduled;
\* every URL in _pending_urls or awaiting a lookup starts with one of them.
C19_BadSchemeRejected ==
    [][/\ arrived'.get = arrived.get + 1 =>
             \/ \E u \in HttpUrls :
                   /\ gets' = gets (+) SetToBag({ [url |-> u, pc |-> "lookup",
                                                   record |-> None] })
                   /\ last' = last
             \/ /\ last'.req = "GET"
                /\ last'.status = "400"
                /\ last'.url \in Urls \ HttpUrls
                /\ UNCHANGED <<gets, metadata, pending_urls, jobs, stats>>
       /\ \A u \in pending_urls' : u \in HttpUrls
       /\ \A g \in BagToSet(gets') : g.url \in HttpUrls
       /\ \A j \in BagToSet(jobs') : j.url \in HttpUrls
      ]_vars

\* C19 witness: a GET for an ftp:// URL has been answered 400.
C19_Witness ==
    \E u \in Urls \ HttpUrls :
        last = [req |-> "GET", url |-> u, status |-> "400", body |-> None]

\* C20: the store holds at most one record per URL, and the record of
\* every collection whose upsert the store has executed.
C20_OneRecordPerUrl ==
    /\ \A u \in Keys : Cardinality(Matching(metadata, u)) <= 1
    /\ \A j \in BagToSet(jobs) :
          j.pc = "written" => Matching(metadata, j.url) # {}

\* C20 witness: two collections of one URL that ran side by side have both
\* been executed by the store; the second has updated the record the first
\* inserted.
C20_Witness ==
    \E j1, j2 \in BagToSet(jobs) :
        /\ j1.url = j2.url
        /\ j1.pc = "written" /\ j2.pc = "written"
        /\ j1.overlapped /\ j2.overlapped
        /\ j1.doc.updated_at # j2.doc.updated_at
        /\ \E d \in Matching(metadata, j1.url) :
              /\ d.created_at = j1.doc.updated_at
              /\ d.updated_at = j2.doc.updated_at

\* The True returns of schedule_background_collection counted in st, over
\* the URLs of S.
RECURSIVE TrueReturns(_, _)
TrueReturns(st, S) ==
    IF S = {}
    THEN 0
    ELSE LET u == CHOOSE x \in S : TRUE
         IN  st[u].scheduled + TrueReturns(st, S \ {u})

\* How many collections of bag b are at pc.
NumAt(b, pc) ==
    BagCardinality([j \in { x \in BagToSet(b) : x.pc = pc } |-> b[j]])

\* C21: the fetches called are as many as the POST collections started plus
\* the True returns of schedule_background_collection, and the upserts
\* called are not more than the fetches that have ended; a fetch is called
\* only in the step of a POST arriving or of a GET handler scheduling.
C21_NoRetry ==
    [][/\ performed'.fetch = arrived'.post + TrueReturns(stats', Keys)
       /\ performed'.upsert + NumAt(jobs', "fetch") <= performed'.fetch
       /\ performed'.fetch # performed.fetch =>
             /\ performed'.fetch = performed.fetch + 1
             /\ \/ arrived'.post = arrived.post + 1
                \/ \E g \in BagToSet(gets) :
                      /\ IsGetMiss(g)
                      /\ stats'[g.url].scheduled = stats[g.url].scheduled + 1
       /\ performed'.upsert # performed.upsert =>
             /\ performed'.upsert = performed.upsert + 1
             /\ NumAt(jobs', "fetch") = NumAt(jobs, "fetch") - 1
             /\ NumAt(jobs', "upsert") = NumAt(jobs, "upsert") + 1
      ]_vars

\* C21 witness: a background collection of u has failed, a later GET has
\* started the second one, and those two fetches are all there were.
C21_Witness ==
    \E u \in Keys :
        /\ stats[u].failed = 1
        /\ stats[u].scheduled = 2
        /\ performed.fetch = 2
        /\ performed.upsert = 0

\* C22: a URL leaves _pending_urls only in the step that ends its
\* background task; when the task ends without an exception its upsert has
\* returned and the store holds a record for the URL, then and ever after.
C22_ClearedAfterStored ==
    [][/\ \A u \in Keys :
             (u \in pending_urls /\ u \notin pending_urls') =>
                 \E j \in Running(jobs, u, {"bg"}) :
                     /\ IsEnd(j)
                     /\ Ended(u)' = Ended(u) + 1
                     /\ stats'[u].completed = stats[u].completed + 1 =>
                           /\ j.pc = "written"
                           /\ Matching(metadata, u) # {}
       /\ \A u \in Keys :
             stats'[u].completed >= 1 => Matching(metadata', u) # {}
      ]_vars

\* C22 witness: the background task of u has ended without an exception; u
\* is not in _pending_urls and the store has its record.
C22_Witness ==
    \E u \in Keys :
        /\ stats[u].completed = 1
        /\ stats[u].failed = 0
        /\ u \notin pending_urls
        /\ Matching(metadata, u) # {}

\* C23: in the step in which a GET handler starts a background task for u,
\* the store holds no record for u.
C23_NoRecordAtLaunch ==
    [][\A g \in BagToSet(gets) :
          (/\ IsGetMiss(g)
           /\ stats'[g.url].scheduled = stats[g.url].scheduled + 1)
          => Matching(metadata, g.url) = {}
      ]_vars

=============================================================================
